---- MODULE Spec2Model ----
(***************************************************************************)
(* Model of the bank loan management system: the console session of        *)
(* loan_system.py (main and its input helpers), the form of frontend.py    *)
(* (LoanApp.calculate_loan / save_loan / reset_form) with backend.py, and  *)
(* the CSV store written by save_loan_record.                              *)
(*                                                                         *)
(* Python floats are modelled as fixed-point numbers: a finite float is    *)
(* [k |-> "fin", v |-> n] where n counts 1/UNIT dollars; +inf, -inf and    *)
(* nan are values of their own, as is Python's None.  Raw user input is a  *)
(* token (an integer literal, a decimal literal or a word) that float()    *)
(* and int() parse or reject.                                              *)
(***************************************************************************)
EXTENDS Integers, Sequences, FiniteSets, TLC

(***************************************************************************)
(* Fixed-point representation of floats.                                   *)
(***************************************************************************)
UNIT == 100 * 100              \* 1 dollar = UNIT units (4 decimals)
SCALE == 10000 * 1000          \* power_term is kept with 7 decimals

Fin(n) == [k |-> "fin", v |-> n]
Inf == [k |-> "inf", v |-> 0]
NegInf == [k |-> "ninf", v |-> 0]
NaN == [k |-> "nan", v |-> 0]
None == [k |-> "none", v |-> 0]
Unbound == [k |-> "unbound", v |-> 0]   \* a local that was never assigned
Zero == Fin(0)

\* A Python int beyond the range of float: n * 10**1000 for an int n # 0.
\* Arithmetic on ints is exact; converting one of these to float raises.
Huge(n) == [k |-> "huge", v |-> n]

\* an exception that leaves the function, in the place of the returned value
ZeroDivisionError == [k |-> "ZeroDivisionError", v |-> 0]
OverflowError == [k |-> "OverflowError", v |-> 0]

Rank(a) == CASE a.k = "ninf" -> 0 - 2
             [] a.k = "huge" -> IF a.v < 0 THEN 0 - 1 ELSE 1
             [] a.k = "fin" -> 0
             [] a.k = "inf" -> 2

\* a <= b, a < b, a > b on numbers: every comparison with nan is False; an
\* int is compared with a float by value, without a conversion
FLe(a, b) == IF a.k = "nan" \/ b.k = "nan" THEN FALSE
             ELSE IF a.k = b.k THEN a.v <= b.v
             ELSE Rank(a) <= Rank(b)

FLt(a, b) == IF a.k = "nan" \/ b.k = "nan" THEN FALSE
             ELSE IF a.k = b.k THEN a.v < b.v
             ELSE Rank(a) < Rank(b)

FGt(a, b) == FLt(b, a)

Abs(n) == IF n < 0 THEN 0 - n ELSE n

\* floor(a * b / c) for a, b >= 0 and 0 < c <= 10^8 without an intermediate
\* product: b is taken three bits at a time
RECURSIVE MulDivQR(_, _, _)
MulDivQR(a, b, c) ==
    IF b = 0 THEN [q |-> 0, r |-> 0]
    ELSE LET h == MulDivQR(a, b \div 8, c)
             digit == b % 8
             t == 8 * h.r + digit * (a % c)
         IN [q |-> 8 * h.q + digit * (a \div c) + t \div c, r |-> t % c]

MulDiv(a, b, c) == MulDivQR(a, b, c).q

\* a * b / c for operands of either sign and c # 0, rounded towards zero
SMulDiv(a, b, c) ==
    LET q == MulDiv(Abs(a), Abs(b), Abs(c))
        negative == ((a < 0) # (b < 0)) # (c < 0)
    IN IF negative THEN 0 - q ELSE q

\* a * n for an int n: int * int is exact, inf * 0 is nan
FMulInt(a, n) == CASE a.k = "fin" -> Fin(a.v * n)
                   [] a.k = "huge" -> IF n = 0 THEN Zero ELSE Huge(a.v * n)
                   [] a.k = "inf" -> IF n = 0 THEN NaN ELSE IF n < 0 THEN NegInf ELSE Inf
                   [] a.k = "ninf" -> IF n = 0 THEN NaN ELSE IF n < 0 THEN Inf ELSE NegInf
                   [] OTHER -> a

\* a / n for an int n >= 0: true division raises on n = 0, and on an int
\* whose quotient is beyond the range of float
FDivInt(a, n) == CASE n = 0 -> ZeroDivisionError
                   [] a.k = "fin" -> Fin(a.v \div n)
                   [] a.k = "huge" -> OverflowError
                   [] OTHER -> a

\* a - b: int - int is exact, int - float converts the int to float first
FSub(a, b) == CASE a.k = "nan" \/ b.k = "nan" ->
                     IF a.k = "huge" \/ b.k = "huge" THEN OverflowError ELSE NaN
                [] a.k = "huge" /\ b.k = "huge" ->
                     IF a.v = b.v THEN Zero ELSE Huge(a.v - b.v)
                [] a.k = "huge" \/ b.k = "huge" -> OverflowError
                [] a.k = "fin" /\ b.k = "fin" -> Fin(a.v - b.v)
                [] a.k = "fin" /\ b.k = "inf" -> NegInf
                [] a.k = "fin" /\ b.k = "ninf" -> Inf
                [] a.k = b.k -> NaN
                [] OTHER -> a

\* a * (num / den) for a positive ratio num/den
FMulRatio(a, num, den) ==
    IF a.k = "fin"
    THEN IF a.v >= 0 THEN Fin(MulDiv(a.v, num, den))
         ELSE Fin(0 - MulDiv(0 - a.v, num, den))
    ELSE a

(***************************************************************************)
(* Text: str(), f"{x:.2f}", f"{rate}%", f"{term} years".                   *)
(***************************************************************************)
Pad2(n) == IF n < 10 THEN "0" \o ToString(n) ELSE ToString(n)

\* f"{x:.2f}": two decimals, rounded
Format2(a) ==
    CASE a.k = "inf" -> "inf"
      [] a.k = "ninf" -> "-inf"
      [] a.k = "nan" -> "nan"
      [] a.k = "fin" ->
           LET c == (Abs(a.v) + (UNIT \div 200)) \div (UNIT \div 100)
           IN (IF a.v < 0 THEN "-" ELSE "")
              \o ToString(c \div 100) \o "." \o Pad2(c % 100)

\* f"{annual_rate}%" for a rate held in tenths of a percent
FormatRate(rate) == ToString(rate \div 10) \o "." \o ToString(rate % 10) \o "%"

FormatTerm(term) == ToString(term) \o " years"

(***************************************************************************)
(* Configuration.                                                          *)
(***************************************************************************)
\* rate is in tenths of a percent: 52 is 5.2 (% per year)
LOAN_OPTIONS ==
    [key \in {"1", "2", "3"} |->
       CASE key = "1" -> [name |-> "Housing Loan", rate |-> 52, max_term |-> 25]
         [] key = "2" -> [name |-> "Auto Loan", rate |-> 75, max_term |-> 6]
         [] key = "3" -> [name |-> "Personal Loan", rate |-> 96, max_term |-> 10]]

BACKEND_LOAN_OPTIONS ==
    [name \in {"Housing Loan", "Auto Loan", "Personal Loan"} |->
       CASE name = "Housing Loan" -> [rate |-> 52, max_term |-> 25]
         [] name = "Auto Loan" -> [rate |-> 75, max_term |-> 6]
         [] name = "Personal Loan" -> [rate |-> 96, max_term |-> 10]]

\* DEBT_RATIO_LIMIT = 0.50, as the ratio 50 / 100
DEBT_RATIO_NUM == 50
DEBT_RATIO_DEN == 100

CSV_HEADER == <<"Loan Type", "Loan Amount", "Interest Rate", "Term",
                "Monthly Payment", "Total Interest", "Status">>

(***************************************************************************)
(* Core calculation functions.                                             *)
(***************************************************************************)
\* A power of (1 + monthly_rate) is [m, e], standing for m * 10^e / SCALE:
\* a mantissa below NORM and a decimal exponent, as a float has.  The
\* exponent stays 0 for the rates and terms of LOAN_OPTIONS.
NORM == 10000 * 10000

\* sys.float_info.max, 1.7976931e308, is the largest power a float holds:
\* FLOAT_MAX_M * 10^FLOAT_MAX_E / SCALE
FLOAT_MAX_M == 17976931
FLOAT_MAX_E == 308

RECURSIVE Pow10(_)
Pow10(e) == IF e = 0 THEN 1 ELSE 10 * Pow10(e - 1)

\* 10^e > n, for n > 0
RECURSIVE Pow10Above(_, _)
Pow10Above(e, n) ==
    IF n < 1 THEN TRUE ELSE IF e = 0 THEN FALSE ELSE Pow10Above(e - 1, n \div 10)

RECURSIVE Normalize(_)
Normalize(p) ==
    IF Abs(p.m) < NORM THEN p
    ELSE Normalize([m |-> p.m \div 10, e |-> p.e + 1])

\* p * monthly_rate, rounded to the last digit, without forming p * rate;
\* monthly_rate = (annual_rate / 100) / 12 = rate / 12000 for a rate in tenths
\* of a percent
RateShare(p, rate) ==
    (p \div 12000) * rate + ((p % 12000) * rate + 6000) \div 12000

\* one factor (1 + monthly_rate) of (1 + monthly_rate) ** num_payments
MonthStep(p, rate) == Normalize([m |-> p.m + RateShare(p.m, rate), e |-> p.e])

QuarterStep(p, rate) == MonthStep(MonthStep(MonthStep(p, rate), rate), rate)

YearStep(p, rate) ==
    QuarterStep(QuarterStep(QuarterStep(QuarterStep(p, rate), rate), rate), rate)

\* (1 + monthly_rate) ** 12
YearFactor(rate) == YearStep([m |-> SCALE, e |-> 0], rate)

\* the product of two powers; the mantissas are divided by ten first when
\* their product would not fit
PowerMul(p, q) ==
    LET wide == Abs(p.m) >= 4000 * 10000 \/ Abs(q.m) >= 4000 * 10000
    IN Normalize([m |-> SMulDiv(p.m, q.m, IF wide THEN 10 * SCALE ELSE SCALE),
                  e |-> p.e + q.e + (IF wide THEN 1 ELSE 0)])

\* y ** years by squaring.  Each power is tested before it is used, so that
\* it is a value by then (an exponent is never negative).
RECURSIVE PowerYears(_, _)
PowerYears(y, years) ==
    IF years <= 0 THEN [m |-> SCALE, e |-> 0]
    ELSE LET h == PowerYears(y, years \div 2)
             sq == PowerMul(h, h)
         IN IF h.e < 0 \/ sq.e < 0 THEN h
            ELSE IF years % 2 = 1 THEN PowerMul(sq, y) ELSE sq

\* (1 + monthly_rate) ** num_payments; num_payments is always term_years * 12
PowerTerm(rate, num_payments) ==
    LET y == YearFactor(rate)
    IN IF y.e < 0 THEN y ELSE PowerYears(y, num_payments \div 12)

\* ** raises OverflowError when the power is beyond the range of float
Overflows(p) ==
    p.e > FLOAT_MAX_E \/ (p.e = FLOAT_MAX_E /\ Abs(p.m) > FLOAT_MAX_M)

\* the mantissa of power_term - 1 at the exponent of power_term; the 1 is
\* lost once it is below the last digit of the mantissa
MinusOne(p) == p.m - (IF Pow10Above(p.e, SCALE) THEN 0 ELSE SCALE \div Pow10(p.e))

\* mutant: the rate is tested before the degenerate inputs
calculate_monthly_payment_RateFirst(principal, annual_rate, term_years) ==
    LET num_payments == term_years * 12
    IN IF annual_rate = 0 THEN FDivInt(principal, num_payments)
       ELSE IF FLe(principal, Zero) \/ term_years <= 0 THEN Zero
       ELSE LET power_term == PowerTerm(annual_rate, num_payments)
                denominator == MinusOne(power_term)
            IN IF Overflows(power_term) \/ denominator = 0 THEN Inf
               ELSE IF principal.k = "huge" THEN Inf
               ELSE IF principal.k = "fin"
               THEN Fin(SMulDiv(SMulDiv(principal.v, annual_rate, 12000),
                                power_term.m, denominator))
               ELSE principal

\* mutant: a loan without interest goes through the amortization formula
calculate_monthly_payment_NoZeroRate(principal, annual_rate, term_years) ==
    IF FLe(principal, Zero) \/ term_years <= 0 THEN Zero
    ELSE LET num_payments == term_years * 12
             power_term == PowerTerm(annual_rate, num_payments)
             denominator == MinusOne(power_term)
         IN IF Overflows(power_term) \/ denominator = 0 THEN Inf
            ELSE IF principal.k = "huge" THEN Inf
            ELSE IF principal.k = "fin"
            THEN Fin(SMulDiv(SMulDiv(principal.v, annual_rate, 12000),
                             power_term.m, denominator))
            ELSE principal

\* loan_system.calculate_monthly_payment.  Inside the try block an
\* OverflowError (the power, or an int principal too large for a float) and a
\* ZeroDivisionError (denominator 0.0) give float('inf'); the division of the
\* zero-rate branch is outside the try block.
calculate_monthly_payment(principal, annual_rate, term_years) ==
    IF FLe(principal, Zero) \/ term_years <= 0 THEN Zero
    ELSE LET num_payments == term_years * 12
         IN IF annual_rate = 0 THEN FDivInt(principal, num_payments)
            ELSE LET power_term == PowerTerm(annual_rate, num_payments)
                     denominator == MinusOne(power_term)
                 IN IF Overflows(power_term) \/ denominator = 0 THEN Inf
                    ELSE IF principal.k = "huge" THEN Inf
                    ELSE IF principal.k = "fin"
                    THEN Fin(SMulDiv(SMulDiv(principal.v, annual_rate, 12000),
                                     power_term.m, denominator))
                    ELSE principal          \* inf or nan, for a rate above 0

\* mutant: the payments of one month per year are counted
calculate_total_interest_Years(principal, monthly_payment, term_years) ==
    LET total_paid == FMulInt(monthly_payment, term_years)
    IN FSub(total_paid, principal)

calculate_total_interest(principal, monthly_payment, term_years) ==
    LET total_paid == FMulInt(monthly_payment, term_years * 12)
    IN FSub(total_paid, principal)

\* backend.py carries its own copies of the two calculations
backend_calculate_monthly_payment(principal, annual_rate, term_years) ==
    IF FLe(principal, Zero) \/ term_years <= 0 THEN Zero
    ELSE LET monthly_rate_is_zero == annual_rate = 0
             num_payments == term_years * 12
         IN IF monthly_rate_is_zero THEN FDivInt(principal, num_payments)
            ELSE LET power_term == PowerTerm(annual_rate, num_payments)
                     numerator_rate == SMulDiv(principal.v, annual_rate, 12000)
                     denominator == MinusOne(power_term)
                 IN IF Overflows(power_term) \/ denominator = 0 THEN Inf
                    ELSE IF principal.k = "huge" THEN Inf
                    ELSE IF principal.k = "fin"
                    THEN Fin(SMulDiv(numerator_rate, power_term.m, denominator))
                    ELSE principal

backend_calculate_total_interest(principal, monthly_payment, term_years) ==
    LET total_paid == FMulInt(monthly_payment, term_years * 12)
    IN FSub(total_paid, principal)

calculate_max_monthly_payment(monthly_income) ==
    FMulRatio(monthly_income, DEBT_RATIO_NUM, DEBT_RATIO_DEN)

validate_term_selection(term, max_term) == 1 <= term /\ term <= max_term

(***************************************************************************)
(* Raw user input and its parsing.                                         *)
(***************************************************************************)
IntTok(n) == [t |-> "int", n |-> n, w |-> ""]        \* "30000", "-100", "0"
DecTok(n) == [t |-> "dec", n |-> n, w |-> ""]        \* "5.5": n counts 1/UNIT
WordTok(w) == [t |-> "word", n |-> 0, w |-> w]       \* "abc", "inf", "nan"

\* float(s): a ValueError is ok = FALSE
ParseFloat(raw) ==
    CASE raw.t = "int" -> [ok |-> TRUE, val |-> Fin(raw.n * UNIT)]
      [] raw.t = "dec" -> [ok |-> TRUE, val |-> Fin(raw.n)]
      [] raw.t = "word" /\ raw.w = "inf" -> [ok |-> TRUE, val |-> Inf]
      [] raw.t = "word" /\ raw.w = "nan" -> [ok |-> TRUE, val |-> NaN]
      [] OTHER -> [ok |-> FALSE, val |-> NaN]

\* int(s): only an integer literal parses
ParseInt(raw) ==
    IF raw.t = "int" THEN [ok |-> TRUE, val |-> raw.n] ELSE [ok |-> FALSE, val |-> 0]

\* s.strip() and s.lower().strip() on the answers the model types
Strip(s) == CASE s = " 1 " -> "1"
              [] s = " YES " -> "YES"
              [] OTHER -> s

Lower(s) == CASE s = " YES " -> " yes "
              [] s = "YES" -> "yes"
              [] s = "No" -> "no"
              [] OTHER -> s

LowerStrip(s) == CASE Lower(s) = " yes " -> "yes"
                   [] OTHER -> Lower(s)

\* one pass of the loop of get_loan_type: the choice is returned or re-prompted
get_loan_type(choice) ==
    IF choice \in DOMAIN LOAN_OPTIONS THEN [ok |-> TRUE, val |-> choice]
    ELSE [ok |-> FALSE, val |-> ""]

\* one pass of the loop of get_positive_float
get_positive_float(raw) ==
    LET p == ParseFloat(raw)
    IN IF p.ok /\ FGt(p.val, Zero) THEN [ok |-> TRUE, val |-> p.val]
       ELSE [ok |-> FALSE, val |-> NaN]

\* one pass of the loop of get_loan_term
get_loan_term(raw, max_term) ==
    LET p == ParseInt(raw)
    IN IF p.ok /\ 1 <= p.val /\ p.val <= max_term THEN [ok |-> TRUE, val |-> p.val]
       ELSE [ok |-> FALSE, val |-> 0]

(***************************************************************************)
(* The store (loan_records.csv) and save_loan_record.                      *)
(***************************************************************************)
HeaderFields == {CSV_HEADER[i] : i \in 1..Len(CSV_HEADER)}

\* csv.DictWriter.writerow: the values in header order, '' for a missing key
Row(loan_details) ==
    [i \in 1..Len(CSV_HEADER) |->
        IF CSV_HEADER[i] \in DOMAIN loan_details THEN loan_details[CSV_HEADER[i]] ELSE ""]

NoStore == [exists |-> FALSE, lines |-> <<>>]

SUCCESS_MESSAGE == "Loan record successfully saved to loan_records.csv."
ERROR_MESSAGE == "Error: Could not write to file loan_records.csv. "

\* What the operating system does to one call: no fault, open() raises
\* (nothing is created), or open() succeeds and the buffered write raises
\* when the file is flushed and closed (the file exists, nothing reached it).
Faults == {"none", "open", "write"}

FaultCause(fault) == IF fault = "open" THEN "Permission denied"
                     ELSE "No space left on device"

\* loan_system.save_loan_record: the new store, the value returned to the
\* caller and the line printed
save_loan_record(st, loan_details, fault) ==
    LET file_exists == st.exists
    IN CASE fault = "open" ->
              [store |-> st, result |-> "None",
               message |-> ERROR_MESSAGE \o FaultCause(fault)]
         [] fault = "write" ->
              [store |-> [exists |-> TRUE, lines |-> st.lines], result |-> "None",
               message |-> ERROR_MESSAGE \o FaultCause(fault)]
         [] OTHER ->
              [store |-> [exists |-> TRUE,
                          lines |-> st.lines
                                    \o (IF ~file_exists THEN <<CSV_HEADER>> ELSE <<>>)
                                    \o <<Row(loan_details)>>],
               result |-> "None",
               message |-> SUCCESS_MESSAGE]

\* backend.save_loan_record: the same, reporting through a message box
backend_save_loan_record(st, loan_details, fault) ==
    LET file_exists == st.exists
    IN CASE fault = "open" ->
              [store |-> st, result |-> "None", dialog |-> "File Error",
               message |-> ERROR_MESSAGE \o FaultCause(fault)]
         [] fault = "write" ->
              [store |-> [exists |-> TRUE, lines |-> st.lines], result |-> "None",
               dialog |-> "File Error",
               message |-> ERROR_MESSAGE \o FaultCause(fault)]
         [] OTHER ->
              [store |-> [exists |-> TRUE,
                          lines |-> st.lines
                                    \o (IF ~file_exists THEN <<CSV_HEADER>> ELSE <<>>)
                                    \o <<Row(loan_details)>>],
               result |-> "None", dialog |-> "Success",
               message |-> SUCCESS_MESSAGE]

DataRows(st) == SelectSeq(st.lines, LAMBDA l : l # CSV_HEADER)

(***************************************************************************)
(* Bounds and the inputs the model types.                                  *)
(***************************************************************************)
MaxRows == 2        \* the store takes at most MaxRows rows, then every save faults
MaxCalls == 3       \* calls of the store driver (SpecStore)

\* the income at which the Auto Loan payment of 30000 over 6 years is exactly
\* the 50% ceiling
BoundaryIncome ==
    DecTok(2 * calculate_monthly_payment(Fin(30000 * UNIT), 75, 6).v)

LoanTypeInputs == {"1", "2", "3", "4", "abc"}
AmountInputs == {IntTok(30000), IntTok(0), IntTok(0 - 100),
                 WordTok("inf"), WordTok("nan"), WordTok("abc")}
IncomeInputs == {BoundaryIncome, IntTok(0),
                 WordTok("inf"), WordTok("nan"), WordTok("abc")}
TermInputs == {IntTok(6), IntTok(25), IntTok(0), DecTok(55000), WordTok("abc")}
AdjustInputs == {"1", "2", "3", " 1 ", "x"}
AnswerInputs == {"yes", " YES ", "no", "No", ""}
\* what the fields of the form hold when Calculate Loan is clicked
FormLoanTypes == {""} \cup DOMAIN BACKEND_LOAN_OPTIONS
FormAmountInputs == {IntTok(30000), IntTok(0), WordTok("nan")}
FormIncomeInputs == {IntTok(500), BoundaryIncome, WordTok("abc")}
FormTermInputs == {IntTok(6), IntTok(25), DecTok(55000)}

VARIABLES
    app,                    \* which program runs: "console", "form" or "store"
    pc,                     \* console: the input main() waits at
    loan_choice_key, principal, monthly_income, term,        \* locals of main()
    monthly_payment, max_monthly_payment, total_interest,
    adjust_choice,
    save_button,            \* form: state of the Save Loan button
    current_loan_details,   \* form: self.current_loan_details
    calc,                   \* form: the locals of the last calculate_loan
    store,                  \* loan_records.csv
    last_save,              \* what the last save_loan_record returned and reported
    calls,                  \* store driver: the calls made so far
    call                    \* calculation driver: the last call and what it gave

console_vars == <<pc, loan_choice_key, principal, monthly_income, term,
                  monthly_payment, max_monthly_payment, total_interest, adjust_choice>>
form_vars == <<save_button, current_loan_details, calc>>
vars == <<app, pc, loan_choice_key, principal, monthly_income, term,
          monthly_payment, max_monthly_payment, total_interest, adjust_choice,
          save_button, current_loan_details, calc, store, last_save, calls, call>>

DetailsNone == [f \in {"None"} |-> "None"]       \* current_loan_details = None
CalcNone == [loan_name |-> "", principal |-> Unbound, monthly_income |-> Unbound,
             term |-> 0, monthly_payment |-> Unbound, total_interest |-> Unbound,
             max_monthly_payment |-> Unbound, status |-> ""]
NoSave == [result |-> "", message |-> ""]
NoCall == [fn |-> "", principal |-> Unbound, annual_rate |-> 0,
           monthly_payment |-> Unbound, term_years |-> 0, result |-> Unbound]

InitState ==
    /\ pc = "loan_type"
    /\ loan_choice_key = ""
    /\ principal = Unbound
    /\ monthly_income = Unbound
    /\ term = 0
    /\ monthly_payment = Unbound
    /\ max_monthly_payment = Unbound
    /\ total_interest = Unbound
    /\ adjust_choice = ""
    /\ save_button = "disabled"
    /\ current_loan_details = DetailsNone
    /\ calc = CalcNone
    /\ store = NoStore
    /\ last_save = NoSave
    /\ calls = <<>>
    /\ call = NoCall

Init == app \in {"console", "form"} /\ InitState

\* the programs of the repository: loan_system.py run as a script, the form
\* of frontend.py; "pair" runs both side by side on one store
ConsoleRuns == app \in {"console", "pair"}
FormRuns == app \in {"form", "pair"}

\* the environment lets a save succeed only while the store has room
MayFault(fault) == fault = "none" => Len(DataRows(store)) < MaxRows

(***************************************************************************)
(* loan_system.main: one action per input the session waits for.           *)
(***************************************************************************)
loan_config == LOAN_OPTIONS[loan_choice_key]
loan_name == loan_config.name
annual_rate == loan_config.rate
max_term == loan_config.max_term

SelectLoanType(choice) ==
    /\ ConsoleRuns /\ pc = "loan_type"
    /\ LET r == get_loan_type(choice)
       IN IF r.ok THEN loan_choice_key' = r.val /\ pc' = "amount"
          ELSE UNCHANGED <<loan_choice_key, pc>>
    /\ UNCHANGED <<app, principal, monthly_income, term, monthly_payment,
                   max_monthly_payment, total_interest, adjust_choice,
                   form_vars, store, last_save, calls, call>>

EnterAmount(raw) ==
    /\ ConsoleRuns /\ pc = "amount"
    /\ LET r == get_positive_float(raw)
       IN IF r.ok THEN principal' = r.val /\ pc' = "income"
          ELSE UNCHANGED <<principal, pc>>
    /\ UNCHANGED <<app, loan_choice_key, monthly_income, term, monthly_payment,
                   max_monthly_payment, total_interest, adjust_choice,
                   form_vars, store, last_save, calls, call>>

EnterIncome(raw) ==
    /\ ConsoleRuns /\ pc = "income"
    /\ LET r == get_positive_float(raw)
       IN IF r.ok THEN monthly_income' = r.val /\ pc' = "term"
          ELSE UNCHANGED <<monthly_income, pc>>
    /\ UNCHANGED <<app, loan_choice_key, principal, term, monthly_payment,
                   max_monthly_payment, total_interest, adjust_choice,
                   form_vars, store, last_save, calls, call>>

EnterTerm(raw) ==
    /\ ConsoleRuns /\ pc = "term"
    /\ LET r == get_loan_term(raw, max_term)
       IN IF r.ok THEN term' = r.val /\ pc' = "evaluate"
          ELSE UNCHANGED <<term, pc>>
    /\ UNCHANGED <<app, loan_choice_key, principal, monthly_income, monthly_payment,
                   max_monthly_payment, total_interest, adjust_choice,
                   form_vars, store, last_save, calls, call>>

\* mutant: the boundary is excluded
WithinLimit_Strict(payment, max_payment) == FLt(payment, max_payment)

\* the test of line 128
WithinLimit(payment, max_payment) == FLe(payment, max_payment)

\* mutant: the payment of the first round is kept, the decision is made on a
\* fresh one
Evaluate_StalePayment ==
    /\ ConsoleRuns /\ pc = "evaluate"
    /\ monthly_payment' = IF monthly_payment = Unbound
                           THEN calculate_monthly_payment(principal, annual_rate, term)
                           ELSE monthly_payment
    /\ max_monthly_payment' = FMulRatio(monthly_income, DEBT_RATIO_NUM, DEBT_RATIO_DEN)
    /\ pc' = IF WithinLimit(calculate_monthly_payment(principal, annual_rate, term),
                            max_monthly_payment')
             THEN "after_loop" ELSE "adjust"
    /\ UNCHANGED <<app, loan_choice_key, principal, monthly_income, term,
                   total_interest, adjust_choice, form_vars, store, last_save,
                   calls, call>>

\* head of the negotiation loop: lines 121-132
Evaluate ==
    /\ ConsoleRuns /\ pc = "evaluate"
    /\ monthly_payment' = calculate_monthly_payment(principal, annual_rate, term)
    /\ max_monthly_payment' = FMulRatio(monthly_income, DEBT_RATIO_NUM, DEBT_RATIO_DEN)
    /\ pc' = IF WithinLimit(monthly_payment', max_monthly_payment')
             THEN "after_loop" ELSE "adjust"
    /\ UNCHANGED <<app, loan_choice_key, principal, monthly_income, term,
                   total_interest, adjust_choice, form_vars, store, last_save, calls, call>>

\* mutant: a cancelled loan keeps its principal (the cancel flag is not set)
AdjustTransition_NoFlag(cur_term, cur_max_term, choice, cur_principal) ==
    IF cur_term < cur_max_term
    THEN CASE choice = "1" -> [pc |-> "adj_term", principal |-> cur_principal]
           [] choice = "2" -> [pc |-> "adj_principal", principal |-> cur_principal]
           [] OTHER -> [pc |-> "after_loop", principal |-> cur_principal]
    ELSE CASE choice = "1" -> [pc |-> "adj_principal", principal |-> cur_principal]
           [] OTHER -> [pc |-> "after_loop", principal |-> cur_principal]

\* mutant: the term menu is offered at the maximum term too
AdjustTransition_GateLe(cur_term, cur_max_term, choice, cur_principal) ==
    IF cur_term <= cur_max_term
    THEN CASE choice = "1" -> [pc |-> "adj_term", principal |-> cur_principal]
           [] choice = "2" -> [pc |-> "adj_principal", principal |-> cur_principal]
           [] OTHER -> [pc |-> "after_loop", principal |-> None]
    ELSE CASE choice = "1" -> [pc |-> "adj_principal", principal |-> cur_principal]
           [] OTHER -> [pc |-> "after_loop", principal |-> None]

\* mutant: the menu of the maximum term keeps the numbers of the other menu
AdjustTransition_MaxTwo(cur_term, cur_max_term, choice, cur_principal) ==
    IF cur_term < cur_max_term
    THEN CASE choice = "1" -> [pc |-> "adj_term", principal |-> cur_principal]
           [] choice = "2" -> [pc |-> "adj_principal", principal |-> cur_principal]
           [] OTHER -> [pc |-> "after_loop", principal |-> None]
    ELSE CASE choice = "2" -> [pc |-> "adj_principal", principal |-> cur_principal]
           [] OTHER -> [pc |-> "after_loop", principal |-> None]

\* mutant: once the maximum term is reached the negotiation is over
AdjustTransition_MaxEnds(cur_term, cur_max_term, choice, cur_principal) ==
    IF cur_term < cur_max_term
    THEN CASE choice = "1" -> [pc |-> "adj_term", principal |-> cur_principal]
           [] choice = "2" -> [pc |-> "adj_principal", principal |-> cur_principal]
           [] OTHER -> [pc |-> "after_loop", principal |-> None]
    ELSE [pc |-> "after_loop", principal |-> None]

\* lines 135-151: where the menu answer leads;
\* principal = None is the flag of a cancelled loan
AdjustTransition(cur_term, cur_max_term, choice, cur_principal) ==
    IF cur_term < cur_max_term
    THEN CASE choice = "1" -> [pc |-> "adj_term", principal |-> cur_principal]
           [] choice = "2" -> [pc |-> "adj_principal", principal |-> cur_principal]
           [] OTHER -> [pc |-> "after_loop", principal |-> None]
    ELSE CASE choice = "1" -> [pc |-> "adj_principal", principal |-> cur_principal]
           [] OTHER -> [pc |-> "after_loop", principal |-> None]

ChooseAdjustment(answer) ==
    /\ ConsoleRuns /\ pc = "adjust"
    /\ adjust_choice' = Strip(answer)
    /\ LET t == AdjustTransition(term, max_term, adjust_choice', principal)
       IN pc' = t.pc /\ principal' = t.principal
    /\ UNCHANGED <<app, loan_choice_key, monthly_income, term, monthly_payment,
                   max_monthly_payment, total_interest, form_vars, store,
                   last_save, calls, call>>

AdjustTerm(raw) ==
    /\ ConsoleRuns /\ pc = "adj_term"
    /\ LET r == get_loan_term(raw, max_term)
       IN IF r.ok THEN term' = r.val /\ pc' = "evaluate"
          ELSE UNCHANGED <<term, pc>>
    /\ UNCHANGED <<app, loan_choice_key, principal, monthly_income, monthly_payment,
                   max_monthly_payment, total_interest, adjust_choice,
                   form_vars, store, last_save, calls, call>>

\* mutant: a new amount puts the term back to the longest one
AdjustPrincipal_ResetsTerm(raw) ==
    /\ ConsoleRuns /\ pc = "adj_principal"
    /\ LET r == get_positive_float(raw)
       IN IF r.ok THEN principal' = r.val /\ term' = max_term /\ pc' = "evaluate"
          ELSE UNCHANGED <<principal, term, pc>>
    /\ UNCHANGED <<app, loan_choice_key, monthly_income, monthly_payment,
                   max_monthly_payment, total_interest, adjust_choice,
                   form_vars, store, last_save, calls, call>>

AdjustPrincipal(raw) ==
    /\ ConsoleRuns /\ pc = "adj_principal"
    /\ LET r == get_positive_float(raw)
       IN IF r.ok THEN principal' = r.val /\ pc' = "evaluate"
          ELSE UNCHANGED <<principal, pc>>
    /\ UNCHANGED <<app, loan_choice_key, monthly_income, term, monthly_payment,
                   max_monthly_payment, total_interest, adjust_choice,
                   form_vars, store, last_save, calls, call>>

\* lines 154-165: the final summary, shown unless the loan was cancelled
FinalSummary ==
    /\ ConsoleRuns /\ pc = "after_loop"
    /\ IF principal # None
       THEN /\ total_interest' = calculate_total_interest(principal, monthly_payment, term)
            /\ pc' = "finalize"
       ELSE /\ pc' = "another"
            /\ UNCHANGED total_interest
    /\ UNCHANGED <<app, loan_choice_key, principal, monthly_income, term,
                   monthly_payment, max_monthly_payment, adjust_choice,
                   form_vars, store, last_save, calls, call>>

\* lines 169-174
console_loan_record ==
    [f \in HeaderFields |->
       CASE f = "Loan Type" -> loan_name
         [] f = "Loan Amount" -> Format2(principal)
         [] f = "Interest Rate" -> FormatRate(annual_rate)
         [] f = "Term" -> FormatTerm(term)
         [] f = "Monthly Payment" -> Format2(monthly_payment)
         [] f = "Total Interest" -> Format2(total_interest)
         [] f = "Status" -> "Finalized"]

\* lines 167-177
Finalize(answer, fault) ==
    /\ ConsoleRuns /\ pc = "finalize"
    /\ IF LowerStrip(answer) = "yes"
       THEN /\ MayFault(fault)
            /\ LET r == save_loan_record(store, console_loan_record, fault)
               IN /\ store' = r.store
                  /\ last_save' = [result |-> r.result, message |-> r.message]
       ELSE /\ fault = "none"
            /\ UNCHANGED <<store, last_save>>
    /\ pc' = "another"
    /\ UNCHANGED <<app, loan_choice_key, principal, monthly_income, term,
                   monthly_payment, max_monthly_payment, total_interest,
                   adjust_choice, form_vars, calls, call>>

\* lines 180-182 and the return to line 109.  The locals of the finished
\* session are dead when the outer loop starts again (each is assigned again
\* before it is read), so the new session starts from unassigned locals.
ProcessAnother(answer) ==
    /\ ConsoleRuns /\ pc = "another"
    /\ IF LowerStrip(answer) # "yes"
       THEN /\ pc' = "done"
            /\ UNCHANGED <<loan_choice_key, principal, monthly_income, term,
                           monthly_payment, max_monthly_payment, total_interest,
                           adjust_choice>>
       ELSE /\ pc' = "loan_type"
            /\ loan_choice_key' = ""
            /\ principal' = Unbound
            /\ monthly_income' = Unbound
            /\ term' = 0
            /\ monthly_payment' = Unbound
            /\ max_monthly_payment' = Unbound
            /\ total_interest' = Unbound
            /\ adjust_choice' = ""
    /\ UNCHANGED <<app, form_vars, store, last_save, calls, call>>

ConsoleNext ==
    \/ \E choice \in LoanTypeInputs : SelectLoanType(choice)
    \/ \E raw \in AmountInputs : EnterAmount(raw)
    \/ \E raw \in IncomeInputs : EnterIncome(raw)
    \/ \E raw \in TermInputs : EnterTerm(raw)
    \/ Evaluate
    \/ \E answer \in AdjustInputs : ChooseAdjustment(answer)
    \/ \E raw \in TermInputs : AdjustTerm(raw)
    \/ \E raw \in AmountInputs : AdjustPrincipal(raw)
    \/ FinalSummary
    \/ \E answer \in AnswerInputs, fault \in Faults : Finalize(answer, fault)
    \/ \E answer \in AnswerInputs : ProcessAnother(answer)

(***************************************************************************)
(* frontend.LoanApp: one action per button.  The entry fields are read by  *)
(* calculate_loan when the button is clicked; what they hold at that time  *)
(* is the input of the action.                                             *)
(***************************************************************************)
\* frontend.py lines 168-176
form_loan_details(c) ==
    [f \in HeaderFields |->
       CASE f = "Loan Type" -> c.loan_name
         [] f = "Loan Amount" -> Format2(c.principal)
         [] f = "Interest Rate" -> FormatRate(BACKEND_LOAN_OPTIONS[c.loan_name].rate)
         [] f = "Term" -> FormatTerm(c.term)
         [] f = "Monthly Payment" -> Format2(c.monthly_payment)
         [] f = "Total Interest" -> Format2(c.total_interest)
         [] f = "Status" -> "Finalized"]

\* mutant: the form rejects a payment equal to the ceiling
FormWithinLimit_Strict(payment, max_payment) == FLt(payment, max_payment)

\* the test of frontend.py line 163
FormWithinLimit(payment, max_payment) == FLe(payment, max_payment)

\* lines 119-134: the fields parse and are positive
FormInputsValid(name, p, i, t) ==
    /\ name # ""
    /\ p.ok /\ i.ok /\ t.ok
    /\ ~(FLe(p.val, Zero) \/ FLe(i.val, Zero) \/ t.val <= 0)

\* the locals of calculate_loan when it returns; status is the outcome shown:
\* the title of the error box, or the STATUS line of the results
calculate_loan(name, amount_raw, income_raw, term_raw) ==
    LET p == ParseFloat(amount_raw)
        i == ParseFloat(income_raw)
        t == ParseInt(term_raw)
    IN IF name = "" THEN [CalcNone EXCEPT !.status = "Input Error"]
       ELSE IF ~FormInputsValid(name, p, i, t)
       THEN [CalcNone EXCEPT !.status = "Input Error"]
       ELSE IF ~validate_term_selection(t.val, BACKEND_LOAN_OPTIONS[name].max_term)
       THEN [CalcNone EXCEPT !.status = "Term Error"]
       ELSE LET rate == BACKEND_LOAN_OPTIONS[name].rate
                payment == backend_calculate_monthly_payment(p.val, rate, t.val)
                interest == backend_calculate_total_interest(p.val, payment, t.val)
                max_payment == calculate_max_monthly_payment(i.val)
            IN [loan_name |-> name, principal |-> p.val, monthly_income |-> i.val,
                term |-> t.val, monthly_payment |-> payment,
                total_interest |-> interest, max_monthly_payment |-> max_payment,
                status |-> IF FormWithinLimit(payment, max_payment)
                           THEN "APPROVED" ELSE "REJECTED"]

CalculateLoan(name, amount_raw, income_raw, term_raw) ==
    /\ FormRuns
    /\ calc' = calculate_loan(name, amount_raw, income_raw, term_raw)
    /\ IF calc'.status = "APPROVED"
       THEN /\ save_button' = "normal"
            /\ current_loan_details' = form_loan_details(calc')
       ELSE /\ save_button' = "disabled"
            /\ current_loan_details' = DetailsNone
    /\ UNCHANGED <<app, console_vars, store, last_save, calls, call>>

\* mutant: reset_form leaves the held loan details
ResetFormState_KeepDetails ==
    /\ save_button' = "disabled"
    /\ UNCHANGED current_loan_details

\* mutant: reset_form leaves the Save Loan button as it is
ResetFormState_KeepButton ==
    /\ current_loan_details' = DetailsNone
    /\ UNCHANGED save_button

\* reset_form, lines 192-202
ResetFormState ==
    /\ save_button' = "disabled"
    /\ current_loan_details' = DetailsNone

\* save_loan, lines 184-190
SaveLoan(fault) ==
    /\ FormRuns
    /\ IF current_loan_details # DetailsNone
       THEN /\ MayFault(fault)
            /\ LET r == backend_save_loan_record(store, current_loan_details, fault)
               IN /\ store' = r.store
                  /\ last_save' = [result |-> r.result, message |-> r.message]
            /\ ResetFormState
       ELSE /\ fault = "none"
            /\ UNCHANGED <<store, last_save, save_button, current_loan_details>>
    /\ UNCHANGED <<app, console_vars, calc, calls, call>>

ResetForm ==
    /\ FormRuns
    /\ ResetFormState
    /\ UNCHANGED <<app, console_vars, calc, store, last_save, calls, call>>

FormNext ==
    \/ \E name \in FormLoanTypes, amount_raw \in FormAmountInputs,
          income_raw \in FormIncomeInputs, term_raw \in FormTermInputs :
            CalculateLoan(name, amount_raw, income_raw, term_raw)
    \/ \E fault \in Faults : SaveLoan(fault)
    \/ ResetForm

Next == ConsoleNext \/ FormNext

Spec == Init /\ [][Next]_vars

(***************************************************************************)
(* The store driven directly, as the tests do: any sequence of calls of    *)
(* the two save_loan_record functions on a store that does not exist at    *)
(* first, each call with or without a fault.                               *)
(***************************************************************************)
\* the dictionary of the tests, and a full record
TestDetails ==
    {[f \in {"Loan Type", "Loan Amount"} |->
        IF f = "Loan Type" THEN "Test" ELSE "1000"],
     [f \in HeaderFields |->
        CASE f = "Loan Type" -> "Auto Loan"
          [] f = "Loan Amount" -> "30000.00"
          [] f = "Interest Rate" -> "7.5%"
          [] f = "Term" -> "6 years"
          [] f = "Monthly Payment" -> "518.70"
          [] f = "Total Interest" -> "7346.64"
          [] f = "Status" -> "Finalized"]}

CallLog(impl, loan_details, fault, r) ==
    [impl |-> impl, details |-> loan_details, fault |-> fault,
     result |-> r.result, message |-> r.message,
     before |-> store, after |-> r.store]

CallSave(loan_details, fault) ==
    /\ app = "store"
    /\ Len(calls) < MaxCalls
    /\ LET r == save_loan_record(store, loan_details, fault)
       IN /\ store' = r.store
          /\ last_save' = [result |-> r.result, message |-> r.message]
          /\ calls' = Append(calls, CallLog("loan_system", loan_details, fault, r))
    /\ UNCHANGED <<app, console_vars, form_vars, call>>

CallBackendSave(loan_details, fault) ==
    /\ app = "store"
    /\ Len(calls) < MaxCalls
    /\ LET r == backend_save_loan_record(store, loan_details, fault)
       IN /\ store' = r.store
          /\ last_save' = [result |-> r.result, message |-> r.message]
          /\ calls' = Append(calls, CallLog("backend", loan_details, fault, r))
    /\ UNCHANGED <<app, console_vars, form_vars, call>>

InitStore == app = "store" /\ InitState

NextStore ==
    \/ \E loan_details \in TestDetails, fault \in Faults : CallSave(loan_details, fault)
    \/ \E loan_details \in TestDetails, fault \in Faults :
          CallBackendSave(loan_details, fault)

SpecStore == InitStore /\ [][NextStore]_vars

(***************************************************************************)
(* The two front ends side by side: the console session up to the summary  *)
(* of its first evaluation round, and the form's Calculate Loan button,    *)
(* each with any of the inputs.                                            *)
(***************************************************************************)
InitPair == app = "pair" /\ InitState

NextPair ==
    \/ \E choice \in LoanTypeInputs : SelectLoanType(choice)
    \/ \E raw \in AmountInputs : EnterAmount(raw)
    \/ \E raw \in IncomeInputs : EnterIncome(raw)
    \/ \E raw \in TermInputs : EnterTerm(raw)
    \/ Evaluate
    \/ FinalSummary
    \/ \E name \in FormLoanTypes, amount_raw \in AmountInputs,
          income_raw \in IncomeInputs, term_raw \in TermInputs :
            CalculateLoan(name, amount_raw, income_raw, term_raw)

SpecPair == InitPair /\ [][NextPair]_vars

(***************************************************************************)
(* The calculation functions called directly, as the tests do: any call of *)
(* calculate_monthly_payment or calculate_total_interest of loan_system.py *)
(* with arguments of any kind.                                             *)
(***************************************************************************)
CalcPrincipals == {Fin(0), Fin(0 - 100 * UNIT), Fin(1000 * UNIT), Fin(12000 * UNIT),
                   Fin(20000 * UNIT), Inf, NaN, Huge(1), Huge(0 - 1)}
\* 0%, 5.0%, 5.2%, 9.6%, 12000% and -2400% a year
CalcRates == {0, 50, 52, 96, 120000, 0 - 24000}
CalcTerms == {0 - 1, 0, 1, 2, 20, 24, 25, 30}
CalcPayments == {Fin(0), Fin(150 * UNIT), Inf, NaN}

CallMonthlyPayment(p, rate, years) ==
    /\ app = "calc"
    /\ call' = [fn |-> "calculate_monthly_payment", principal |-> p,
                annual_rate |-> rate, monthly_payment |-> Unbound,
                term_years |-> years,
                result |-> calculate_monthly_payment(p, rate, years)]
    /\ UNCHANGED <<app, console_vars, form_vars, store, last_save, calls>>

CallTotalInterest(p, payment, years) ==
    /\ app = "calc"
    /\ call' = [fn |-> "calculate_total_interest", principal |-> p,
                annual_rate |-> 0, monthly_payment |-> payment,
                term_years |-> years,
                result |-> calculate_total_interest(p, payment, years)]
    /\ UNCHANGED <<app, console_vars, form_vars, store, last_save, calls>>

InitCalc == app = "calc" /\ InitState

NextCalc ==
    \/ \E p \in CalcPrincipals, rate \in CalcRates, years \in CalcTerms :
          CallMonthlyPayment(p, rate, years)
    \/ \E p \in CalcPrincipals, payment \in CalcPayments, years \in CalcTerms :
          CallTotalInterest(p, payment, years)

SpecCalc == InitCalc /\ [][NextCalc]_vars

(***************************************************************************)
(* Properties.                                                             *)
(***************************************************************************)
IsErrorMessage(m) == m \in {ERROR_MESSAGE \o FaultCause(f) : f \in Faults \ {"none"}}

\* a step in which save_loan_record was called and it shows
SaveCalled == store' # store \/ last_save' # last_save

\* the ceiling of the policy: monthly income times 0.50
HalfIncome(income) == FMulRatio(income, 1, 2)

ConsoleApproved == app = "console" /\ pc = "after_loop" /\ principal # None
ConsoleRejected == app = "console" /\ pc = "adjust"
FormRate == BACKEND_LOAN_OPTIONS[calc.loan_name].rate

\* C1: in both front ends a round approves the loan exactly when the payment
\* computed from the current principal, the category rate and the current term
\* is at most half the monthly income; a payment equal to the ceiling approves,
\* a payment above it does not.
C1_ApprovedIffWithinCeiling ==
    /\ ConsoleApproved =>
          FLe(calculate_monthly_payment(principal, annual_rate, term),
              HalfIncome(monthly_income))
    /\ ConsoleRejected =>
          ~FLe(calculate_monthly_payment(principal, annual_rate, term),
               HalfIncome(monthly_income))
    /\ (app = "form" /\ calc.status = "APPROVED") =>
          FLe(backend_calculate_monthly_payment(calc.principal, FormRate, calc.term),
              HalfIncome(calc.monthly_income))
    /\ (app = "form" /\ calc.status = "REJECTED") =>
          ~FLe(backend_calculate_monthly_payment(calc.principal, FormRate, calc.term),
               HalfIncome(calc.monthly_income))

\* the console approves a payment that is exactly the ceiling
C1_Witness ==
    /\ ConsoleApproved
    /\ monthly_payment.k = "fin" /\ monthly_payment.v > 0
    /\ monthly_payment = HalfIncome(monthly_income)

\* C2: save_loan_record is called only with the record of a round that was
\* judged affordable, and one approved decision is handed over at most once:
\* the console reaches the finalize question only from an approving round and
\* leaves it with the call; the form holds no details after the call, and
\* without held details a save writes nothing.
C2_SavedOnlyApprovedOnce ==
    /\ [][(app = "console" /\ SaveCalled) =>
            /\ pc = "finalize" /\ pc' = "another"
            /\ monthly_payment = calculate_monthly_payment(principal, annual_rate, term)
            /\ FLe(monthly_payment, HalfIncome(monthly_income))
            /\ Len(DataRows(store')) <= Len(DataRows(store)) + 1]_vars
    /\ [][(app = "console" /\ pc' = "finalize") =>
            (pc = "after_loop" /\ FLe(monthly_payment, HalfIncome(monthly_income)))]_vars
    /\ [][(app = "form" /\ SaveCalled) =>
            /\ calc.status = "APPROVED"
            /\ current_loan_details = form_loan_details(calc)
            /\ FLe(calc.monthly_payment, HalfIncome(calc.monthly_income))
            /\ current_loan_details' = DetailsNone
            /\ Len(DataRows(store')) <= Len(DataRows(store)) + 1]_vars
    /\ [][(app = "form" /\ current_loan_details = DetailsNone /\ calc' = calc) =>
            store' = store]_vars

\* the form has saved an approved loan and holds it no longer
C2_Witness ==
    /\ app = "form"
    /\ Len(DataRows(store)) = 1
    /\ calc.status = "APPROVED"
    /\ current_loan_details = DetailsNone

\* the menu entry that cancels: 3 below the maximum term, 2 at the maximum
CancelEntry == IF term < max_term THEN "3" ELSE "2"

\* C3: choosing cancel in a negotiation round ends the console session at
\* once: the next state is past the loop with the loan flagged as cancelled,
\* and from there the session goes to the "another loan" question without an
\* evaluation round and without a call of save_loan_record.
C3_CancelEndsSession ==
    /\ [][(app = "console" /\ pc = "adjust" /\ adjust_choice' = CancelEntry) =>
            (pc' = "after_loop" /\ principal' = None
             /\ store' = store /\ last_save' = last_save)]_vars
    /\ [][(app = "console" /\ pc = "after_loop" /\ principal = None) =>
            (pc' = "another" /\ store' = store /\ last_save' = last_save)]_vars

\* a session cancelled after a term adjustment made in an earlier round
C3_Witness ==
    /\ app = "console" /\ pc = "another" /\ principal = None
    /\ adjust_choice = "2" /\ term = max_term /\ loan_choice_key = "1"

\* C4: in a rejected round at the maximum term no choice leads to a term
\* adjustment or changes the term: the outcomes are a new principal or the
\* cancellation; a term adjustment starts only below the maximum term.
C4_TermAdjustOnlyBelowMax ==
    /\ [][(app = "console" /\ pc = "adjust" /\ term = max_term) =>
            (pc' \in {"adj_principal", "after_loop"} /\ term' = term)]_vars
    /\ [][(app = "console" /\ pc' = "adj_term") => term < max_term]_vars
    /\ [][(app = "console" /\ pc \in {"adjust", "adj_principal", "evaluate"}) =>
            term' = term]_vars

\* at the maximum term, choice 1 has led to a change of the principal
C4_Witness ==
    /\ app = "console" /\ pc = "adj_principal"
    /\ term = max_term /\ adjust_choice = "1"

\* C5 (as claimed): a save that fails leaves the approved decision in place:
\* the form keeps the details and the enabled button, the console stays at
\* the finalize question.
C5_FailedSaveKeepsDecision ==
    [][(SaveCalled /\ IsErrorMessage(last_save'.message)) =>
         /\ app = "form" =>
               (current_loan_details' = current_loan_details
                /\ save_button' = "normal")
         /\ app = "console" => pc' = "finalize"]_vars

\* C6 (as claimed): a call that fails when the store is opened reports the
\* cause, appends nothing, and returns a result that differs from the result
\* of every successful call.
C6_FailureResultTellsApart ==
    \A i \in 1..Len(calls) :
       calls[i].fault = "open" =>
          /\ calls[i].message = ERROR_MESSAGE \o "Permission denied"
          /\ calls[i].after = calls[i].before
          /\ \A j \in 1..Len(calls) :
                calls[j].fault = "none" => calls[j].result # calls[i].result

\* the rows of the successful calls, in call order
RECURSIVE SuccessfulRows(_)
SuccessfulRows(log) ==
    IF log = <<>> THEN <<>>
    ELSE (IF Head(log).fault = "none" THEN <<Row(Head(log).details)>> ELSE <<>>)
         \o SuccessfulRows(Tail(log))

\* C7 (as claimed): once a call has succeeded the store holds the header as
\* its first row, once, followed by one row per successful call in call order;
\* before that it does not exist or holds nothing that is not the header.
C7_HeaderOnceThenRows ==
    IF SuccessfulRows(calls) # <<>>
    THEN store.exists /\ store.lines = <<CSV_HEADER>> \o SuccessfulRows(calls)
    ELSE store.lines = <<>>

\* C8: the Save Loan button is enabled exactly when approved loan details are
\* held, and held details are those of the last calculation, which approved.
C8_SaveEnabledIffApprovedHeld ==
    app = "form" =>
       /\ (save_button = "normal") <=> (current_loan_details # DetailsNone)
       /\ current_loan_details # DetailsNone =>
             (calc.status = "APPROVED" /\ current_loan_details = form_loan_details(calc))
       /\ calc.status # "APPROVED" => save_button = "disabled"

\* after a reset or a save the button is disabled although the last
\* calculation approved
C8_Witness ==
    /\ app = "form" /\ calc.status = "APPROVED"
    /\ save_button = "disabled" /\ last_save = NoSave

\* C9 (as claimed): the values that reach the payment calculation are valid in
\* both front ends.
C9_CalculationInputsValid ==
    /\ (app = "console" /\ pc \in {"evaluate", "adjust"}) =>
          /\ loan_choice_key \in DOMAIN LOAN_OPTIONS
          /\ FGt(principal, Zero) /\ FGt(monthly_income, Zero)
          /\ 1 <= term /\ term <= max_term
    /\ (app = "form" /\ calc.status \in {"APPROVED", "REJECTED"}) =>
          /\ calc.loan_name \in DOMAIN BACKEND_LOAN_OPTIONS
          /\ FGt(calc.principal, Zero) /\ FGt(calc.monthly_income, Zero)
          /\ 1 <= calc.term /\ calc.term <= BACKEND_LOAN_OPTIONS[calc.loan_name].max_term

\* C10 (as claimed): a round whose payment is +infinity does not approve.
C10_InfinitePaymentNotApproved ==
    /\ ConsoleApproved => monthly_payment # Inf
    /\ (app = "form" /\ calc.status = "APPROVED") => calc.monthly_payment # Inf

\* the console has evaluated a round and the form has calculated, both from
\* the same category, principal, income and term
SameInputs ==
    /\ pc \in {"adjust", "after_loop", "finalize"}
    /\ calc.status \in {"APPROVED", "REJECTED"}
    /\ calc.loan_name = loan_name
    /\ calc.principal = principal
    /\ calc.monthly_income = monthly_income
    /\ calc.term = term

\* C11: for the same category, principal, income and term the first
\* evaluation round of the console and the form's calculation decide alike
\* and compute the same payment; when they approve, the total interest of the
\* console's summary is the form's, and the record the console builds is the
\* one the form holds: the seven fields of the header, with the same formatted
\* values, Status being "Finalized".  (The console computes no total interest
\* in a round it rejects.)
C11_FrontEndsAgree ==
    SameInputs =>
       /\ (calc.status = "APPROVED") <=> (pc \in {"after_loop", "finalize"})
       /\ calc.monthly_payment = monthly_payment
       /\ pc = "finalize" =>
             /\ calc.total_interest = total_interest
             /\ DOMAIN console_loan_record = HeaderFields
             /\ DOMAIN current_loan_details = HeaderFields
             /\ \A f \in HeaderFields : current_loan_details[f] = console_loan_record[f]
             /\ console_loan_record["Status"] = "Finalized"
             /\ current_loan_details["Status"] = "Finalized"

\* both front ends have approved the same loan at the ceiling, with finite values
C11_Witness ==
    /\ SameInputs /\ pc = "finalize"
    /\ current_loan_details # DetailsNone
    /\ monthly_payment.k = "fin" /\ monthly_payment = HalfIncome(monthly_income)

IsMonthlyPaymentCall == call.fn = "calculate_monthly_payment"
IsTotalInterestCall == call.fn = "calculate_total_interest"
Raised(a) == a \in {ZeroDivisionError, OverflowError}

\* C12: calculate_monthly_payment returns 0 whenever principal <= 0 or
\* term_years <= 0, at every rate, rate 0 included, and no call ends in a
\* ZeroDivisionError: the division of the zero-rate branch is reached with
\* term_years > 0 only.
C12_DegenerateReturnsZero ==
    IsMonthlyPaymentCall =>
       /\ (FLe(call.principal, Zero) \/ call.term_years <= 0) => call.result = Zero
       /\ call.result # ZeroDivisionError

\* a call at rate 0 with term 0 and a positive principal has returned 0
C12_Witness ==
    /\ IsMonthlyPaymentCall
    /\ call.annual_rate = 0 /\ call.term_years = 0
    /\ call.principal = Fin(1000 * UNIT) /\ call.result = Zero

\* C13: for principal > 0 and term_years > 0 the payment at rate 0 is the
\* quotient principal / (term_years * 12), as that division gives it: the
\* quotient to the last digit for a finite principal (12000 over 1 year gives
\* 1000), +infinity for an infinite one, and the OverflowError of the division
\* itself for an int beyond the range of float.
C13_ZeroRateIsDivision ==
    (/\ IsMonthlyPaymentCall /\ call.annual_rate = 0
     /\ FGt(call.principal, Zero) /\ call.term_years > 0) =>
       LET n == call.term_years * 12
       IN /\ call.principal.k = "fin" =>
                /\ call.result.k = "fin"
                /\ call.result.v * n <= call.principal.v
                /\ call.principal.v < (call.result.v + 1) * n
          /\ (call.principal = Fin(12000 * UNIT) /\ call.term_years = 1) =>
                call.result = Fin(1000 * UNIT)
          /\ call.principal = Inf => call.result = Inf
          /\ call.principal.k = "huge" => call.result = OverflowError

\* 12000 at rate 0 over 1 year
C13_Witness ==
    /\ IsMonthlyPaymentCall /\ call.annual_rate = 0
    /\ call.principal = Fin(12000 * UNIT) /\ call.term_years = 1
    /\ call.result = Fin(1000 * UNIT)

\* C14: calculate_total_interest gives monthly_payment * term_years * 12 -
\* principal for every input: the exact difference for finite values (20000,
\* 150, 20 gives 16000), and what those products and that difference give for
\* infinite, nan and int arguments.
C14_TotalInterestFormula ==
    IsTotalInterestCall =>
       /\ (call.principal.k = "fin" /\ call.monthly_payment.k = "fin") =>
             call.result = Fin(call.monthly_payment.v * call.term_years * 12
                               - call.principal.v)
       /\ call.result = FSub(FMulInt(FMulInt(call.monthly_payment, call.term_years), 12),
                             call.principal)

\* the total interest of 20000 paid back at 150 a month over 20 years
C14_Witness ==
    /\ IsTotalInterestCall
    /\ call.principal = Fin(20000 * UNIT) /\ call.monthly_payment = Fin(150 * UNIT)
    /\ call.term_years = 20 /\ call.result = Fin(16000 * UNIT)

\* C15 (as claimed): for an int principal beyond the range of float, at rate
\* 5.0 over 30 years, calculate_monthly_payment returns +infinity, and
\* calculate_total_interest of that principal and the +infinity payment
\* returns +infinity too; neither raises.
C15_OverflowGivesInfinity ==
    /\ (/\ IsMonthlyPaymentCall /\ call.principal = Huge(1)
        /\ call.annual_rate = 50 /\ call.term_years = 30) => call.result = Inf
    /\ (/\ IsTotalInterestCall /\ call.principal = Huge(1)
        /\ call.monthly_payment = Inf /\ call.term_years = 30) => call.result = Inf

\* C16 (as claimed): for a principal > 0 and a rate >= 0 the payment of a
\* longer term is never greater than the payment of the term of the call.
C16_LongerTermNeverDearer ==
    (/\ IsMonthlyPaymentCall /\ FGt(call.principal, Zero)
     /\ call.annual_rate >= 0 /\ call.term_years >= 1 /\ ~Raised(call.result)) =>
       \A years \in CalcTerms :
          years > call.term_years =>
             LET longer == calculate_monthly_payment(call.principal,
                                                     call.annual_rate, years)
             IN ~Raised(longer) => FLe(longer, call.result)

\* the states of the negotiation loop of lines 120-151
LoopStates == {"evaluate", "adjust", "adj_term", "adj_principal"}

\* C17: in a rejected round below the maximum term, choice 1 leads to the term
\* prompt, choice 2 to the amount prompt and any other answer cancels; at the
\* maximum term, choice 1 leads to the amount prompt and any other answer, 2
\* included, cancels.  An accepted adjustment leads to the head of the loop,
\* where the payment is computed again and the round is judged.
C17_MenuMapping ==
    /\ [][(app = "console" /\ pc = "adjust" /\ term < max_term) =>
            /\ adjust_choice' = "1" => (pc' = "adj_term" /\ principal' = principal)
            /\ adjust_choice' = "2" => (pc' = "adj_principal" /\ principal' = principal)
            /\ adjust_choice' \notin {"1", "2"} =>
                  (pc' = "after_loop" /\ principal' = None)]_vars
    /\ [][(app = "console" /\ pc = "adjust" /\ term >= max_term) =>
            /\ adjust_choice' = "1" => (pc' = "adj_principal" /\ principal' = principal)
            /\ adjust_choice' # "1" => (pc' = "after_loop" /\ principal' = None)]_vars
    /\ [][(app = "console" /\ pc \in {"adj_term", "adj_principal"} /\ pc' # pc) =>
            pc' = "evaluate"]_vars
    /\ [][(app = "console" /\ pc = "evaluate") =>
            /\ pc' \in {"adjust", "after_loop"}
            /\ monthly_payment' = calculate_monthly_payment(principal, annual_rate, term)]_vars

\* below the maximum term, choice 2 has led to the amount prompt
C17_Witness ==
    /\ app = "console" /\ pc = "adj_principal"
    /\ adjust_choice = "2" /\ term < max_term

\* C18: the negotiation loop is left only by a round that is affordable or by
\* a cancel answer; a round that is not affordable leads to the menu, choice 1
\* always leads to a prompt, and a prompt leads only to itself or to the next
\* round, whatever number of rounds went before: nothing counts them.
C18_NoRoundLimit ==
    /\ [][(app = "console" /\ pc \in LoopStates /\ pc' \notin LoopStates) =>
            /\ pc' = "after_loop"
            /\ \/ /\ pc = "evaluate" /\ principal' # None
                  /\ FLe(calculate_monthly_payment(principal, annual_rate, term),
                         HalfIncome(monthly_income))
               \/ /\ pc = "adjust" /\ principal' = None
                  /\ adjust_choice' # "1"
                  /\ term < max_term => adjust_choice' # "2"]_vars
    /\ [][(/\ app = "console" /\ pc = "evaluate"
           /\ ~FLe(calculate_monthly_payment(principal, annual_rate, term),
                   HalfIncome(monthly_income))) => pc' = "adjust"]_vars
    /\ [][(app = "console" /\ pc = "adjust" /\ adjust_choice' = "1") =>
            pc' \in {"adj_term", "adj_principal"}]_vars
    /\ [][(app = "console" /\ pc \in {"adj_term", "adj_principal"}) =>
            pc' \in {pc, "evaluate"}]_vars

\* a round rejected at the maximum term after an earlier round's adjustment
C18_Witness ==
    /\ app = "console" /\ pc = "adjust"
    /\ adjust_choice = "1" /\ term = max_term /\ principal = Inf

\* the row of the approving round: every value from the final principal and term
FinalRow ==
    LET payment == calculate_monthly_payment(principal, annual_rate, term)
    IN <<loan_name, Format2(principal), FormatRate(annual_rate), FormatTerm(term),
         Format2(payment),
         Format2(calculate_total_interest(principal, payment, term)), "Finalized">>

\* C19: when the final summary is shown, after any number of adjustments, the
\* monthly payment and the total interest are the ones computed from the
\* principal and the term the session holds then, and a row the session
\* appends to the store carries these values.
C19_SummaryFromFinalRound ==
    /\ [](app = "console" /\ pc = "finalize" =>
            /\ monthly_payment = calculate_monthly_payment(principal, annual_rate, term)
            /\ total_interest =
                  calculate_total_interest(principal, monthly_payment, term))
    /\ [][(app = "console" /\ Len(store'.lines) > Len(store.lines)) =>
            (pc = "finalize" /\ store'.lines[Len(store'.lines)] = FinalRow)]_vars

\* a housing loan approved and saved after the term and the amount were adjusted
C19_Witness ==
    /\ app = "console" /\ pc = "another"
    /\ loan_choice_key = "1" /\ adjust_choice = "1" /\ term = max_term
    /\ principal = Fin(30000 * UNIT)
    /\ last_save.message = SUCCESS_MESSAGE
    /\ Len(store.lines) = 2 /\ store.lines[2] = FinalRow

\* C20: within the negotiation loop the term prompt leaves the principal as
\* it is, the amount prompt leaves the term as it is, and no step changes the
\* category, its rate and maximum term, or the monthly income.
C20_NegotiationFrame ==
    /\ [][(app = "console" /\ pc = "adj_term") => principal' = principal]_vars
    /\ [][(app = "console" /\ pc = "adj_principal") => term' = term]_vars
    /\ [][(app = "console" /\ pc \in LoopStates) =>
            /\ loan_choice_key' = loan_choice_key
            /\ LOAN_OPTIONS[loan_choice_key'].rate = annual_rate
            /\ LOAN_OPTIONS[loan_choice_key'].max_term = max_term
            /\ monthly_income' = monthly_income]_vars

\* a housing loan of 30000 whose term was set at the term prompt, ready for the
\* next round
C20_Witness ==
    /\ app = "console" /\ pc = "evaluate"
    /\ loan_choice_key = "1" /\ adjust_choice = "1" /\ term < max_term
    /\ principal = Inf /\ monthly_income = ParseFloat(BoundaryIncome).val
====
